---- MODULE Spec2Model ----
(***************************************************************************)
(* Width parsing and formatting of src/assets/scripts/util/width_units.js. *)
(*                                                                         *)
(* Representation.                                                         *)
(*   - A JavaScript string is a sequence of one-character strings.         *)
(*   - A JavaScript number is an exact rational <<n, d>> in lowest terms    *)
(*     with d > 0; NaN is <<0, 0>>.  The rounding error of IEEE doubles is  *)
(*     not modelled: 1 / 12 is the rational 1/12.                          *)
(*   - undefined is the one-element tuple <<"undefined">>.                 *)
(*   - Characters outside ASCII are written as tokens: the vulgar-fraction  *)
(*     glyphs as "1/8", "1/4", ..., "7/8", the no-break space U+00A0 as     *)
(*     "NBSP" and the narrow no-break space U+202F as "NNBSP".             *)
(***************************************************************************)
EXTENDS Integers, Sequences, FiniteSets, TLC

VARIABLES pc, locale, widthInput, units, normalized, width, value, markup, widthText

vars == <<pc, locale, widthInput, units, normalized, width, value, markup, widthText>>

Undefined == <<"undefined">>

SETTINGS_UNITS_IMPERIAL == <<"imperial">>

SETTINGS_UNITS_METRIC == <<"metric">>

----------------------------------------------------------------------------
(* Numbers *)

NaN == <<0, 0>>

Abs(n) == IF n < 0 THEN -n ELSE n

RECURSIVE GCD(_, _)
GCD(a, b) == IF b = 0 THEN a ELSE GCD(b, a % b)

Rat(n, d) ==
  LET g == GCD(Abs(n), d)
  IN  <<n \div g, d \div g>>

Zero == <<0, 1>>

One == <<1, 1>>

IsNaN(x) == x[2] = 0

\* JavaScript truthiness of a number: false for 0 and NaN.
Truthy(x) == ~IsNaN(x) /\ x[1] # 0

\* Least common multiple of two positive integers
LCM(a, b) == (a \div GCD(a, b)) * b

AddOver(x, y, l) == Rat(x[1] * (l \div x[2]) + y[1] * (l \div y[2]), l)

RAdd(x, y) == IF IsNaN(x) \/ IsNaN(y) THEN NaN ELSE AddOver(x, y, LCM(x[2], y[2]))

RNeg(x) == <<-x[1], x[2]>>

RSub(x, y) == RAdd(x, RNeg(y))

MulReduced(a, b) == <<a[1] * b[1], a[2] * b[2]>>

RMul(x, y) == IF IsNaN(x) \/ IsNaN(y) THEN NaN ELSE MulReduced(Rat(x[1], y[2]), Rat(y[1], x[2]))

RInv(x) == IF x[1] < 0 THEN <<-x[2], -x[1]>> ELSE <<x[2], x[1]>>

RDiv(x, y) == RMul(x, RInv(y))

\* x <= y, for rationals with positive denominators
RLe(x, y) == RSub(x, y)[1] <= 0

RAbs(x) == <<Abs(x[1]), x[2]>>

\* Math.floor
Floor(x) == IF x[1] >= 0 THEN x[1] \div x[2] ELSE -((-x[1] + x[2] - 1) \div x[2])

RECURSIVE Pow10(_)
Pow10(k) == IF k = 0 THEN 1 ELSE 10 * Pow10(k - 1)

----------------------------------------------------------------------------
(* Constants of the module *)

IMPERIAL_METRIC_MULTIPLIER == Rat(30, 100)

METRIC_PRECISION == 3

IMPERIAL_PRECISION == 3

WIDTH_INPUT_CONVERSION ==
  << [text |-> <<"m">>, multiplier |-> RDiv(One, IMPERIAL_METRIC_MULTIPLIER)],
     [text |-> <<"c", "m">>,
      multiplier |-> RDiv(RDiv(One, <<100, 1>>), IMPERIAL_METRIC_MULTIPLIER)],
     [text |-> <<"\"">>, multiplier |-> RDiv(One, <<12, 1>>)],
     [text |-> <<"i", "n">>, multiplier |-> RDiv(One, <<12, 1>>)],
     [text |-> <<"i", "n", ".">>, multiplier |-> RDiv(One, <<12, 1>>)],
     [text |-> <<"i", "n", "c", "h">>, multiplier |-> RDiv(One, <<12, 1>>)],
     [text |-> <<"i", "n", "c", "h", "e", "s">>, multiplier |-> RDiv(One, <<12, 1>>)],
     [text |-> <<"'">>, multiplier |-> One],
     [text |-> <<"f", "t">>, multiplier |-> One],
     [text |-> <<"f", "t", ".">>, multiplier |-> One],
     [text |-> <<"f", "e", "e", "t">>, multiplier |-> One] >>

\* The object's entries in property (insertion) order: key text, glyph, value.
IMPERIAL_VULGAR_FRACTIONS ==
  << [key |-> <<".", "1", "2", "5">>, glyph |-> "1/8"],
     [key |-> <<".", "2", "5">>, glyph |-> "1/4"],
     [key |-> <<".", "3", "7", "5">>, glyph |-> "3/8"],
     [key |-> <<".", "5">>, glyph |-> "1/2"],
     [key |-> <<".", "6", "2", "5">>, glyph |-> "5/8"],
     [key |-> <<".", "7", "5">>, glyph |-> "3/4"],
     [key |-> <<".", "8", "7", "5">>, glyph |-> "7/8"] >>

----------------------------------------------------------------------------
(* Strings *)

Digits == {"0", "1", "2", "3", "4", "5", "6", "7", "8", "9"}

DigitValue(c) ==
  CASE c = "0" -> 0 [] c = "1" -> 1 [] c = "2" -> 2 [] c = "3" -> 3 [] c = "4" -> 4
    [] c = "5" -> 5 [] c = "6" -> 6 [] c = "7" -> 7 [] c = "8" -> 8 [] c = "9" -> 9

DigitChar(n) == <<"0", "1", "2", "3", "4", "5", "6", "7", "8", "9">>[n + 1]

\* The white space and line terminators that parseFloat trims and the
\* regular expression class \s contains, as far as the model's keys go.
WhiteSpace == {" ", "\t", "\n", "NBSP", "NNBSP"}

\* String.prototype.indexOf with a one-character argument (0-based, -1 if absent)
IndexOf(s, c) ==
  IF \E i \in 1..Len(s) : s[i] = c
  THEN (CHOOSE i \in 1..Len(s) : s[i] = c /\ \A j \in 1..(i - 1) : s[j] # c) - 1
  ELSE -1

\* s.replace(/c/g, to): every occurrence of the character c replaced by to
RECURSIVE ReplaceAll(_, _, _)
ReplaceAll(s, c, to) ==
  IF s = <<>> THEN <<>>
  ELSE (IF Head(s) = c THEN to ELSE <<Head(s)>>) \o ReplaceAll(Tail(s), c, to)

\* s.replace(new RegExp(c), to): the first occurrence of c replaced by to
ReplaceFirst(s, c, to) ==
  LET i == IndexOf(s, c)
  IN  IF i = -1 THEN s
      ELSE SubSeq(s, 1, i) \o to \o SubSeq(s, i + 2, Len(s))

\* s.split(c) for a one-character separator
RECURSIVE Split(_, _)
Split(s, c) ==
  LET i == IndexOf(s, c)
  IN  IF i = -1 THEN <<s>>
      ELSE <<SubSeq(s, 1, i)>> \o Split(SubSeq(s, i + 2, Len(s)), c)

\* Length of the longest prefix of s made of characters of set
LeadingRun(s, set) ==
  CHOOSE k \in 0..Len(s) :
    /\ \A i \in 1..k : s[i] \in set
    /\ (k < Len(s) => s[k + 1] \notin set)

DigitRun(s) == LeadingRun(s, Digits)

RECURSIVE DigitsToNat(_)
DigitsToNat(s) ==
  IF s = <<>> THEN 0 ELSE 10 * DigitsToNat(SubSeq(s, 1, Len(s) - 1)) + DigitValue(s[Len(s)])

\* Number.parseFloat: leading white space is skipped, then the longest prefix
\* that is a decimal literal (sign, digits, fraction, exponent) is read;
\* NaN when there is none.  (The literal Infinity is not modelled.)
\*
\* The exponent part of a literal: e or E, an optional sign, digits.  Without
\* digits there is no exponent part and the value is scaled by 10^0.
ExponentValue(rest) ==
  IF rest = <<>> \/ rest[1] \notin {"e", "E"} THEN 0
  ELSE IF Len(rest) >= 2 /\ rest[2] = "-"
       THEN -DigitsToNat(SubSeq(rest, 3, 2 + DigitRun(SubSeq(rest, 3, Len(rest)))))
  ELSE IF Len(rest) >= 2 /\ rest[2] = "+"
       THEN DigitsToNat(SubSeq(rest, 3, 2 + DigitRun(SubSeq(rest, 3, Len(rest)))))
  ELSE DigitsToNat(SubSeq(rest, 2, 1 + DigitRun(Tail(rest))))

Scaled(m, e) == IF e >= 0 THEN <<m[1] * Pow10(e), m[2]>> ELSE Rat(m[1], m[2] * Pow10(-e))

\* s has ni integer digits, then (if hasDot) a period and nf fraction digits
DecimalLiteral(s, ni, hasDot, nf) ==
  IF ni = 0 /\ nf = 0 THEN NaN
  ELSE Scaled(Rat(DigitsToNat(SubSeq(s, 1, ni)) * Pow10(nf)
                    + DigitsToNat(SubSeq(s, ni + 2, ni + 1 + nf)),
                  Pow10(nf)),
              ExponentValue(SubSeq(s, ni + (IF hasDot THEN 1 ELSE 0) + nf + 1, Len(s))))

FractionRun(s, ni, hasDot) ==
  DecimalLiteral(s, ni, hasDot, IF hasDot THEN DigitRun(SubSeq(s, ni + 2, Len(s))) ELSE 0)

UnsignedLiteral(s, ni) == FractionRun(s, ni, ni < Len(s) /\ s[ni + 1] = ".")

SignedLiteral(s, neg, x) == IF neg /\ ~IsNaN(x) THEN RNeg(x) ELSE x

TrimmedLiteral(s, signed) ==
  SignedLiteral(s, signed /\ s[1] = "-",
                UnsignedLiteral(IF signed THEN Tail(s) ELSE s,
                                DigitRun(IF signed THEN Tail(s) ELSE s)))

TrimStart(s) == SubSeq(s, LeadingRun(s, WhiteSpace) + 1, Len(s))

HasSign(s) == s # <<>> /\ s[1] \in {"+", "-"}

ParseFloat(str) == TrimmedLiteral(TrimStart(str), HasSign(TrimStart(str)))

\* widthInput.match(new RegExp('[\\d\\.]' + text + '$')): the input ends with a
\* digit or a period followed by text, where a period inside text is the
\* regular expression's wildcard (any character but a line terminator).
SuffixMatches(s, text) ==
  /\ Len(s) >= Len(text) + 1
  /\ s[Len(s) - Len(text)] \in Digits \cup {"."}
  /\ \A i \in 1..Len(text) :
       LET c == s[Len(s) - Len(text) + i]
       IN  IF text[i] = "." THEN c # "\n" ELSE c = text[i]

----------------------------------------------------------------------------
(* parseStringForUnits *)

\* Mutant: dashes are left in the input
StripDashes_Kept(input) == input

\* Lines 195-197
StripDashes(input) == IF IndexOf(input, "-") # -1 THEN ReplaceAll(input, "-", <<>>) ELSE input

\* Lines 202-218: the default multiplier, overridden by the first table entry
\* whose pattern matches
FirstMatch(s) ==
  IF \E i \in 1..Len(WIDTH_INPUT_CONVERSION) : SuffixMatches(s, WIDTH_INPUT_CONVERSION[i].text)
  THEN CHOOSE i \in 1..Len(WIDTH_INPUT_CONVERSION) :
         /\ SuffixMatches(s, WIDTH_INPUT_CONVERSION[i].text)
         /\ \A j \in 1..(i - 1) : ~SuffixMatches(s, WIDTH_INPUT_CONVERSION[j].text)
  ELSE 0

\* Mutant: under METRIC the default multiplier wins over the table
Multiplier_DefaultFirst(s, u, match) ==
  IF u = SETTINGS_UNITS_METRIC THEN RDiv(One, IMPERIAL_METRIC_MULTIPLIER)
  ELSE IF match # 0 THEN WIDTH_INPUT_CONVERSION[match].multiplier
  ELSE One

Multiplier(s, u, match) ==
  IF match # 0 THEN WIDTH_INPUT_CONVERSION[match].multiplier
  ELSE IF u = SETTINGS_UNITS_METRIC THEN RDiv(One, IMPERIAL_METRIC_MULTIPLIER)
  ELSE One

\* Lines 199-223, on the input without dashes
ConvertWidth(s, u, w) == IF Truthy(w) THEN RMul(w, Multiplier(s, u, FirstMatch(s))) ELSE Zero

ParseStripped(s, u) == ConvertWidth(s, u, ParseFloat(s))

parseStringForUnits(input, u) == ParseStripped(StripDashes(input), u)

\* parseStringForUnits(prev.toString()) where prev is a number, as the reduce
\* callback calls it from its second round on.  Number.prototype.toString
\* gives the shortest decimal that reads back as the same number, with no
\* unit suffix, so the parse returns prev -- except below 1e-6, where the
\* string is in exponent form m + "e-" + k (1 <= m < 10): the dash is removed and
\* the string reads as m * 10^k = prev * 10^k * 10^k.
RECURSIVE ExponentOf(_)
ExponentOf(x) == IF x[1] >= x[2] THEN 0 ELSE 1 + ExponentOf(RMul(x, <<10, 1>>))

parseNumberForUnits(prev) ==
  IF ~Truthy(prev) THEN Zero
  ELSE IF prev[1] >= prev[2] \/ (prev[2] + prev[1] - 1) \div prev[1] <= 1000000 THEN prev
  ELSE RMul(RMul(prev, <<Pow10(ExponentOf(prev)), 1>>), <<Pow10(ExponentOf(prev)), 1>>)

----------------------------------------------------------------------------
(* processWidthInput *)

\* Mutant: spaces are left in the input
NormalizeQuirks_SpacesKept(input) == ReplaceAll(input, ",", <<".">>)

\* Lines 47-48: spaces removed, commas turned into periods
NormalizeQuirks(input) == ReplaceAll(ReplaceAll(input, " ", <<>>), ",", <<".">>)

\* Lines 50-54: for each table entry in turn, the first occurrence of its glyph
\* is replaced by its key
RECURSIVE ReplaceFractions(_, _)
ReplaceFractions(input, i) ==
  IF i > Len(IMPERIAL_VULGAR_FRACTIONS) THEN input
  ELSE LET f == IMPERIAL_VULGAR_FRACTIONS[i]
       IN  ReplaceFractions(
             IF IndexOf(input, f.glyph) # -1 THEN ReplaceFirst(input, f.glyph, f.key) ELSE input,
             i + 1)

Normalize(input) == ReplaceFractions(NormalizeQuirks(input), 1)

\* Line 59
IsCompound(s) == IndexOf(s, "'") # -1 /\ Len(s) > IndexOf(s, "'") + 1

\* Mutant: the inches marker is not appended to a part that lacks it
WithInches_Unmarked(cur) == cur

\* Lines 63-65
WithInches(cur) == IF IndexOf(cur, "\"") = -1 THEN Append(cur, "\"") ELSE cur

\* Lines 62-68: Array.prototype.reduce without an initial value.  prev is the
\* first part (a string) in the first round and the running sum afterwards.
RECURSIVE ReduceFrom(_, _, _, _)
ReduceFrom(parts, i, prev, u) ==
  IF i > Len(parts) THEN prev
  ELSE ReduceFrom(parts, i + 1,
                  RAdd(parseNumberForUnits(prev), parseStringForUnits(WithInches(parts[i]), u)),
                  u)

Reduce(parts, u) ==
  ReduceFrom(parts, 3,
             RAdd(parseStringForUnits(parts[1], Undefined),
                  parseStringForUnits(WithInches(parts[2]), u)),
             u)

\* Lines 60-61
FeetMarked(split) == [split EXCEPT ![1] = Append(@, "'")]

\* Lines 59-71, on the normalized input
ParseNormalized(s, u) ==
  IF IsCompound(s) THEN Reduce(FeetMarked(Split(s, "'")), u) ELSE parseStringForUnits(s, u)

processWidthInput(input, u) ==
  IF input = Undefined \/ input = <<>> \/ u = Undefined THEN Undefined
  ELSE ParseNormalized(Normalize(input), u)

----------------------------------------------------------------------------
(* Formatting *)

\* What Intl.NumberFormat takes from the locale: the decimal separator, the
\* grouping separator, and the least number of digits before the first
\* grouping separator.
LocaleData ==
  [ enUS |-> [decimal |-> ".", group |-> ",", minimumGroupingDigits |-> 1],
    de   |-> [decimal |-> ",", group |-> ".", minimumGroupingDigits |-> 1],
    fr   |-> [decimal |-> ",", group |-> "NNBSP", minimumGroupingDigits |-> 1] ]

Locales == DOMAIN LocaleData

RECURSIVE NatToDigits(_)
NatToDigits(n) ==
  IF n < 10 THEN <<DigitChar(n)>> ELSE Append(NatToDigits(n \div 10), DigitChar(n % 10))

\* The p digits of n, zero-padded on the left (n < 10^p)
RECURSIVE FixedDigits(_, _)
FixedDigits(n, p) ==
  IF p = 0 THEN <<>> ELSE Append(FixedDigits(n \div 10, p - 1), DigitChar(n % 10))

RECURSIVE StripTrailingZeros(_)
StripTrailingZeros(ds) ==
  IF ds # <<>> /\ ds[Len(ds)] = "0" THEN StripTrailingZeros(SubSeq(ds, 1, Len(ds) - 1)) ELSE ds

\* x >= 0 rounded to p fraction digits, half away from zero, in units of 10^-p
RoundScaled(x, p) ==
  (x[1] \div x[2]) * Pow10(p) + (2 * (x[1] % x[2]) * Pow10(p) + x[2]) \div (2 * x[2])

\* Integer digits with the grouping separator between groups of three
RECURSIVE Grouped(_, _)
Grouped(ds, sep) ==
  IF Len(ds) <= 3 THEN ds
  ELSE Grouped(SubSeq(ds, 1, Len(ds) - 3), sep) \o <<sep>> \o SubSeq(ds, Len(ds) - 2, Len(ds))

\* new Intl.NumberFormat(loc, { style: 'decimal', maximumFractionDigits: p }).format(x)
\* for x >= 0: n is x in units of 10^-p
FormatParts(l, int, frac) ==
  (IF Len(int) >= 3 + l.minimumGroupingDigits THEN Grouped(int, l.group) ELSE int)
    \o (IF frac = <<>> THEN <<>> ELSE <<l.decimal>> \o frac)

FormatScaled(l, p, n) ==
  FormatParts(l, NatToDigits(n \div Pow10(p)), StripTrailingZeros(FixedDigits(n % Pow10(p), p)))

NumberFormat(loc, p, x) == FormatScaled(LocaleData[loc], p, RoundScaled(x, p))

\* Number.prototype.toFixed(p) for x >= 0: a string with exactly p fraction digits
FixedText(n, p) ==
  NatToDigits(n \div Pow10(p)) \o (IF p = 0 THEN <<>> ELSE <<".">> \o FixedDigits(n % Pow10(p), p))

ToFixed(x, p) == FixedText(RoundScaled(x, p), p)

\* Mutant: the value is fixed to 3 digits without the conversion
convertImperialMeasurementToMetric_Unconverted(v) == ToFixed(v, METRIC_PRECISION)

convertImperialMeasurementToMetric(v) == ToFixed(RMul(v, IMPERIAL_METRIC_MULTIPLIER), METRIC_PRECISION)

\* loc is store.getState().locale.locale, read at line 131
stringifyMeasurementValue(loc, v, u) ==
  IF ~Truthy(v) THEN <<"0">>
  ELSE IF u = SETTINGS_UNITS_IMPERIAL
       THEN NumberFormat(loc, IMPERIAL_PRECISION, v)
       ELSE NumberFormat(loc, METRIC_PRECISION,
                         ParseFloat(convertImperialMeasurementToMetric(v)))

\* Number.prototype.toString of a number 0 <= r < 1: "0", or "0." and the
\* digits of r (to the 17 significant digits a double has at most), or the
\* exponent form below 1e-6, of which only the mantissa's first digit and the
\* "e-" are kept here since no table key starts that way.
ToStringDigits == 17

RECURSIVE FractionDigits(_, _, _)
FractionDigits(n, d, k) ==
  IF n = 0 \/ k = 0 THEN <<>>
  ELSE <<DigitChar((10 * n) \div d)>> \o FractionDigits((10 * n) % d, d, k - 1)

RemainderToString(r) ==
  IF IsNaN(r) THEN <<"N", "a", "N">>
  ELSE IF r[1] = 0 THEN <<"0">>
  ELSE IF (r[2] + r[1] - 1) \div r[1] <= 1000000
       THEN <<"0", ".">> \o FractionDigits(r[1], r[2], ToStringDigits)
       ELSE <<DigitChar(Floor(RMul(r, <<Pow10(ExponentOf(r)), 1>>))), "e", "-">>

\* IMPERIAL_VULGAR_FRACTIONS[key]: the glyph, or Undefined
FractionGlyph(key) ==
  IF \E i \in 1..Len(IMPERIAL_VULGAR_FRACTIONS) : IMPERIAL_VULGAR_FRACTIONS[i].key = key
  THEN <<IMPERIAL_VULGAR_FRACTIONS[
           CHOOSE i \in 1..Len(IMPERIAL_VULGAR_FRACTIONS) : IMPERIAL_VULGAR_FRACTIONS[i].key = key].glyph>>
  ELSE Undefined

\* Mutant: the integer part is written even when it is 0
WithFraction_ZeroKept(loc, v, floor, fraction) ==
  IF fraction # Undefined
  THEN stringifyMeasurementValue(loc, floor, SETTINGS_UNITS_IMPERIAL) \o fraction
  ELSE stringifyMeasurementValue(loc, v, SETTINGS_UNITS_IMPERIAL)

\* Lines 173-183
WithFraction(loc, v, floor, fraction) ==
  IF fraction # Undefined
  THEN IF Truthy(floor)
       THEN stringifyMeasurementValue(loc, floor, SETTINGS_UNITS_IMPERIAL) \o fraction
       ELSE fraction
  ELSE stringifyMeasurementValue(loc, v, SETTINGS_UNITS_IMPERIAL)

\* Math.floor(value), as a number
FloorOf(v) == IF IsNaN(v) THEN NaN ELSE <<Floor(v), 1>>

\* Line 170
RemainderOf(v) == IF IsNaN(v) THEN NaN ELSE RSub(v, <<Floor(v), 1>>)

getImperialMeasurementWithVulgarFractions(loc, v) ==
  WithFraction(loc, v, FloorOf(v), FractionGlyph(Tail(RemainderToString(RemainderOf(v)))))

WBR == <<"<", "w", "b", "r", ">">>

\* The options argument is <<>> when omitted and <<b>> for { markup: b };
\* the parameter's default, { markup = false } = {}, makes the omitted one false.
MarkupOf(options) == IF options = <<>> THEN FALSE ELSE options[1]

\* Mutant: the marker is appended after the unit suffix
prettifyWidth_MarkerLast(loc, w, u, options) ==
  IF u = SETTINGS_UNITS_IMPERIAL
  THEN getImperialMeasurementWithVulgarFractions(loc, w)
         \o <<"'">>
         \o (IF MarkupOf(options) = TRUE THEN WBR ELSE <<>>)
  ELSE stringifyMeasurementValue(loc, w, SETTINGS_UNITS_METRIC)
         \o <<" ", "m">>
         \o (IF MarkupOf(options) = TRUE THEN WBR \o <<" ">> ELSE <<>>)

prettifyWidth(loc, w, u, options) ==
  IF u = SETTINGS_UNITS_IMPERIAL
  THEN getImperialMeasurementWithVulgarFractions(loc, w)
         \o (IF MarkupOf(options) = TRUE THEN WBR ELSE <<>>)
         \o <<"'">>
  ELSE stringifyMeasurementValue(loc, w, SETTINGS_UNITS_METRIC)
         \o (IF MarkupOf(options) = TRUE THEN WBR \o <<" ">> ELSE <<>>)
         \o <<" ", "m">>

----------------------------------------------------------------------------
(* Inputs *)

MaxLen == 3

MaxThousands == 4

\* Keys a user types into the width field
Keys == {"0", "5", "7", ".", ",", "'", "\"", " ", "\t", "-", "1/2", "x"}

TypedTexts == UNION {[1..n -> Keys] : n \in 0..MaxLen}

Numerals ==
  { <<"5">>, <<"1", "2">>, <<"1", ".", "5">>, <<"1", ",", "5">>, <<".", "5">>, <<"0">>,
    <<"-", "5">>, <<"5", "1/4">>, <<"3/4">>, <<"5", "'", "7">>, <<"-", "5", "'", "7">>,
    <<"1", "'", "2", "'", "3">>, <<"1/2", "'", "1/2">>,
    <<".", "0", "0", "0", "0", "0", "0", "1", "'", "x", "'", "7">> }

Gaps == {<<>>, <<" ">>, <<"\t">>, <<"NBSP">>}

Suffixes ==
  {WIDTH_INPUT_CONVERSION[i].text : i \in 1..Len(WIDTH_INPUT_CONVERSION)}
    \cup {<<>>, <<"i", "n", "s">>, <<"k", "m">>}

MeasuredTexts == {n \o g \o s : n \in Numerals, g \in Gaps, s \in Suffixes}

Inputs == TypedTexts \cup MeasuredTexts \cup {Undefined}

UnitArgs == {Undefined, SETTINGS_UNITS_IMPERIAL, SETTINGS_UNITS_METRIC}

OptionArgs == {<<>>, <<TRUE>>, <<FALSE>>}

Eighths == {Rat(k, 8) : k \in 0..7}

Values ==
  { RAdd(<<t * 1000 + h, 1>>, f) :
      t \in 0..MaxThousands,
      h \in {0, 1, 12, 999},
      f \in Eighths \cup {<<1, 10>>, <<1, 3>>, <<1, 2500>>, <<1, 2000>>, <<2499, 2500>>} }
    \cup {NaN}

----------------------------------------------------------------------------
(* The calls *)

Init ==
  /\ pc = "idle"
  /\ locale = "enUS"
  /\ widthInput = Undefined
  /\ units = Undefined
  /\ normalized = Undefined
  /\ width = Undefined
  /\ value = Undefined
  /\ markup = <<>>
  /\ widthText = Undefined

\* A call processWidthInput(input, u); normalized is the local widthInput
\* after line 54.
ProcessWidthInput ==
  /\ pc = "idle"
  /\ \E input \in Inputs, u \in UnitArgs :
       /\ widthInput' = input
       /\ units' = u
       /\ normalized' = IF input = Undefined \/ input = <<>> \/ u = Undefined
                        THEN Undefined ELSE Normalize(input)
       /\ width' = processWidthInput(input, u)
  /\ pc' = "parsed"
  /\ UNCHANGED <<locale, value, markup, widthText>>

\* A call prettifyWidth(v, u, options) while the store holds locale loc
PrettifyWidth ==
  /\ pc = "idle"
  /\ \E loc \in Locales, v \in Values, u \in UnitArgs, o \in OptionArgs :
       /\ locale' = loc
       /\ value' = v
       /\ units' = u
       /\ markup' = o
       /\ widthText' = prettifyWidth(loc, v, u, o)
  /\ pc' = "formatted"
  /\ UNCHANGED <<widthInput, normalized, width>>

\* The displayed text is read back: processWidthInput(prettifyWidth(v, u), u)
RoundTrip ==
  /\ pc = "formatted"
  /\ MarkupOf(markup) # TRUE
  /\ widthInput' = widthText
  /\ normalized' = IF units = Undefined THEN Undefined ELSE Normalize(widthText)
  /\ width' = processWidthInput(widthText, units)
  /\ pc' = "reparsed"
  /\ UNCHANGED <<locale, units, value, markup, widthText>>

Return ==
  /\ pc # "idle"
  /\ pc' = "idle"
  /\ locale' = "enUS"
  /\ widthInput' = Undefined
  /\ units' = Undefined
  /\ normalized' = Undefined
  /\ width' = Undefined
  /\ value' = Undefined
  /\ markup' = <<>>
  /\ widthText' = Undefined

Next == ProcessWidthInput \/ PrettifyWidth \/ RoundTrip \/ Return

Spec == Init /\ [][Next]_vars

----------------------------------------------------------------------------
(* Reading texts independently of the parser, for the properties below *)

IsDigit(c) == c \in Digits

IsSeparator(c) == c \in {".", ","}

Unsigned(t) == IF t # <<>> /\ t[1] = "-" THEN Tail(t) ELSE t

\* A decimal numeral: an optional minus sign, then digits with at most one
\* decimal separator (period or comma), at least one digit.
IsNumeral(t) ==
  /\ \A i \in 1..Len(Unsigned(t)) : IsDigit(Unsigned(t)[i]) \/ IsSeparator(Unsigned(t)[i])
  /\ Len(SelectSeq(Unsigned(t), IsSeparator)) <= 1
  /\ SelectSeq(Unsigned(t), IsDigit) # <<>>

\* Number of digits after the decimal separator of an unsigned numeral
DigitsAfterSeparator(u) ==
  IF SelectSeq(u, IsSeparator) = <<>> THEN 0
  ELSE Len(u) - (CHOOSE i \in 1..Len(u) : IsSeparator(u[i]))

\* The magnitude of a numeral, and its value with the sign
NumeralMagnitude(t) ==
  Rat(DigitsToNat(SelectSeq(Unsigned(t), IsDigit)), Pow10(DigitsAfterSeparator(Unsigned(t))))

NumeralValue(t) ==
  IF t # <<>> /\ t[1] = "-" THEN RNeg(NumeralMagnitude(t)) ELSE NumeralMagnitude(t)

Glyphs == {IMPERIAL_VULGAR_FRACTIONS[i].glyph : i \in 1..Len(IMPERIAL_VULGAR_FRACTIONS)}

EndsWith(t, suffix) ==
  Len(t) >= Len(suffix) /\ SubSeq(t, Len(t) - Len(suffix) + 1, Len(t)) = suffix

DropLast(t, n) == SubSeq(t, 1, Len(t) - n)

Parsed == pc = "parsed" /\ widthInput # Undefined /\ units # Undefined

----------------------------------------------------------------------------
(* C1 *)

\* C1: reading back the imperial display of a non-negative value v gives a
\* number within 0.125 of v, whatever the magnitude of v and the locale.
C1_RoundTripWithinEighth ==
  (pc = "reparsed" /\ units = SETTINGS_UNITS_IMPERIAL /\ ~IsNaN(value))
    => /\ width # Undefined
       /\ RLe(RAbs(RSub(width, value)), <<1, 8>>)

----------------------------------------------------------------------------
(* C2 *)

\* The input is F ' I or F ' I " with numerals F and I, the feet marker at i
CompoundOfNumerals(i) ==
  /\ widthInput[i] = "'"
  /\ IsNumeral(SubSeq(widthInput, 1, i - 1))
  /\ \/ IsNumeral(SubSeq(widthInput, i + 1, Len(widthInput)))
     \/ /\ widthInput[Len(widthInput)] = "\""
        /\ IsNumeral(SubSeq(widthInput, i + 1, Len(widthInput) - 1))

FeetNumeral(i) == SubSeq(widthInput, 1, i - 1)

InchesNumeral(i) ==
  IF widthInput[Len(widthInput)] = "\""
  THEN SubSeq(widthInput, i + 1, Len(widthInput) - 1)
  ELSE SubSeq(widthInput, i + 1, Len(widthInput))

\* C2 as stated: for numeric F and I, the texts F'I" and F'I both give
\* F + I/12, under IMPERIAL and under METRIC.
C2_CompoundIsFeetPlusInches ==
  Parsed =>
    \A i \in 1..Len(widthInput) :
      CompoundOfNumerals(i)
        => width = RAdd(NumeralValue(FeetNumeral(i)),
                        RDiv(NumeralValue(InchesNumeral(i)), <<12, 1>>))

\* C2 amended: for decimal numerals F and I, the texts F'I" and F'I both give
\* |F| + |I|/12, under IMPERIAL and under METRIC: a minus sign is dropped.
C2_CompoundIsMagnitudes ==
  Parsed =>
    \A i \in 1..Len(widthInput) :
      CompoundOfNumerals(i)
        => width = RAdd(NumeralMagnitude(FeetNumeral(i)),
                        RDiv(NumeralMagnitude(InchesNumeral(i)), <<12, 1>>))

C2_Witness ==
  /\ Parsed
  /\ units = SETTINGS_UNITS_METRIC
  /\ widthInput = <<"-", "5", "'", "7">>
  /\ CompoundOfNumerals(3)
  /\ width = <<67, 12>>

----------------------------------------------------------------------------
(* C3 *)

InchTexts == {<<"\"">>, <<"i", "n">>, <<"i", "n", ".">>, <<"i", "n", "c", "h">>,
              <<"i", "n", "c", "h", "e", "s">>}

FeetTexts == {<<"'">>, <<"f", "t">>, <<"f", "t", ".">>, <<"f", "e", "e", "t">>}

\* The Unit Token Table as the claim gives it
IsTableSuffix(t) == t \in {<<"m">>, <<"c", "m">>} \cup InchTexts \cup FeetTexts

TableMultiplier(t) ==
  IF t = <<"m">> THEN <<10, 3>>
  ELSE IF t = <<"c", "m">> THEN <<1, 30>>
  ELSE IF t \in InchTexts THEN <<1, 12>>
  ELSE One

UnitlessMultiplier == IF units = SETTINGS_UNITS_METRIC THEN <<10, 3>> ELSE One

\* The input is a non-zero numeral in its first k characters, then a table
\* suffix or nothing
NumeralThenSuffix(k) ==
  /\ IsNumeral(SubSeq(widthInput, 1, k))
  /\ NumeralMagnitude(SubSeq(widthInput, 1, k))[1] # 0
  /\ k = Len(widthInput) \/ IsTableSuffix(SubSeq(widthInput, k + 1, Len(widthInput)))

ExpectedMultiplier(k) ==
  IF k = Len(widthInput) THEN UnitlessMultiplier
  ELSE TableMultiplier(SubSeq(widthInput, k + 1, Len(widthInput)))

----------------------------------------------------------------------------
(* C4 *)

\* The parts of a compound input as the reduce callback parses them
CompoundParts == FeetMarked(Split(normalized, "'"))

PartText(i) == IF i = 1 THEN CompoundParts[1] ELSE WithInches(CompoundParts[i])

\* The leading numeric portion of a part is zero or not a number
ZeroOrNotANumber(i) == ~Truthy(ParseFloat(StripDashes(PartText(i))))

PartValue(i) ==
  IF ZeroOrNotANumber(i) THEN Zero
  ELSE parseStringForUnits(PartText(i), IF i = 1 THEN Undefined ELSE units)

RECURSIVE SumOfParts(_)
SumOfParts(n) == IF n = 0 THEN Zero ELSE RAdd(SumOfParts(n - 1), PartValue(n))

\* C4: in a compound input every part whose leading numeric portion is zero
\* or not a number contributes exactly 0, and the result is the sum of the
\* other parts as parsed: the parse always ends with a number.
C4_LenientParts ==
  (Parsed /\ widthInput # <<>> /\ IsCompound(normalized))
    => /\ width # Undefined
       /\ ~IsNaN(width)
       /\ width = SumOfParts(Len(CompoundParts))

----------------------------------------------------------------------------
(* C5 *)

\* C5: processWidthInput returns undefined exactly when the input is empty or
\* undefined or the unit system is missing; otherwise it returns a number, and
\* the number is not negative.
C5_ResultDomain ==
  pc = "parsed" =>
    IF widthInput = Undefined \/ widthInput = <<>> \/ units = Undefined
    THEN width = Undefined
    ELSE /\ width # Undefined
         /\ ~IsNaN(width)
         /\ width[2] > 0
         /\ width[1] >= 0

C5_Witness ==
  /\ Parsed
  /\ widthInput = <<"-", "5", "'">>
  /\ width = <<5, 1>>

----------------------------------------------------------------------------
(* C6 *)

SuffixLength == IF units = SETTINGS_UNITS_IMPERIAL THEN 1 ELSE 2

PlainText == prettifyWidth(locale, value, units, <<>>)

MarkerCount(t) ==
  Cardinality({i \in 1..(Len(t) - Len(WBR) + 1) : SubSeq(t, i, i + Len(WBR) - 1) = WBR})

\* C6 as stated: with markup the output is the output without markup with
\* <wbr> inserted once, immediately before the unit suffix, in both unit
\* systems; without markup there is no marker.
C6_MarkerBeforeSuffix ==
  pc = "formatted" =>
    IF MarkupOf(markup) = TRUE
    THEN /\ widthText = DropLast(PlainText, SuffixLength) \o WBR
                          \o SubSeq(PlainText, Len(PlainText) - SuffixLength + 1, Len(PlainText))
         /\ MarkerCount(widthText) = 1
    ELSE widthText = PlainText /\ MarkerCount(widthText) = 0

\* C6 amended: under IMPERIAL the marker is inserted immediately before the
\* feet marker; under METRIC the marker and one more space are inserted
\* before the suffix " m"; once in both; no marker without markup.
C6_MarkerAndSpaceInMetric ==
  pc = "formatted" =>
    IF MarkupOf(markup) = TRUE
    THEN /\ widthText = DropLast(PlainText, SuffixLength) \o WBR
                          \o (IF units = SETTINGS_UNITS_IMPERIAL THEN <<>> ELSE <<" ">>)
                          \o SubSeq(PlainText, Len(PlainText) - SuffixLength + 1, Len(PlainText))
         /\ EndsWith(PlainText, IF units = SETTINGS_UNITS_IMPERIAL THEN <<"'">> ELSE <<" ", "m">>)
         /\ MarkerCount(widthText) = 1
    ELSE widthText = PlainText /\ MarkerCount(widthText) = 0

C6_Witness ==
  /\ pc = "formatted"
  /\ markup = <<TRUE>>
  /\ units = SETTINGS_UNITS_METRIC
  /\ value = <<12, 1>>
  /\ widthText = <<"3", ".", "6">> \o WBR \o <<" ", " ", "m">>

----------------------------------------------------------------------------
(* C7 *)

GlyphOfEighths == <<"1/8", "1/4", "3/8", "1/2", "5/8", "3/4", "7/8">>

\* The fractional part of value is k/8
FractionIsEighths(k) == ~IsNaN(value) /\ RSub(value, <<Floor(value), 1>>) = Rat(k, 8)

\* C7: for a value whose fractional part is k/8, k in 1..7, the imperial text
\* is the formatted integer part (nothing when it is 0), the glyph of k/8 and
\* the feet marker.
C7_FractionDisplay ==
  (pc = "formatted" /\ units = SETTINGS_UNITS_IMPERIAL /\ MarkupOf(markup) # TRUE)
    => \A k \in 1..7 :
         FractionIsEighths(k)
           => widthText =
                (IF Floor(value) = 0 THEN <<>>
                 ELSE NumberFormat(locale, IMPERIAL_PRECISION, <<Floor(value), 1>>))
                  \o <<GlyphOfEighths[k]>> \o <<"'">>

C7_Witness ==
  /\ pc = "formatted"
  /\ units = SETTINGS_UNITS_IMPERIAL
  /\ locale = "de"
  /\ value = <<8005, 8>>
  /\ FractionIsEighths(5)
  /\ widthText = <<"1", ".", "0", "0", "0", "5/8", "'">>

----------------------------------------------------------------------------
(* C8 *)

\* The number a locale's text stands for
LocaleRead(loc, t) ==
  NumeralValue(ReplaceAll(ReplaceAll(t, LocaleData[loc].group, <<>>),
                          LocaleData[loc].decimal, <<".">>))

\* C8: under METRIC or no unit system the text is a numeric portion and the
\* suffix " m"; the numeric portion is "0" for a falsy value and otherwise the
\* locale's rendering of value * 0.3 held to 3 decimal digits; no unit system
\* gives the METRIC text.
C8_MetricDisplay ==
  (pc = "formatted" /\ units # SETTINGS_UNITS_IMPERIAL /\ MarkupOf(markup) # TRUE)
    => /\ EndsWith(widthText, <<" ", "m">>)
       /\ widthText = prettifyWidth(locale, value, SETTINGS_UNITS_METRIC, markup)
       /\ IF ~Truthy(value)
          THEN DropLast(widthText, 2) = <<"0">>
          ELSE /\ DropLast(widthText, 2) =
                    NumberFormat(locale, 3, LocaleRead(locale, DropLast(widthText, 2)))
               /\ RLe(RAbs(RSub(LocaleRead(locale, DropLast(widthText, 2)),
                                RMul(value, <<3, 10>>))),
                      <<1, 2000>>)

C8_Witness ==
  /\ pc = "formatted"
  /\ units = Undefined
  /\ locale = "fr"
  /\ value = <<8025, 2>>
  /\ widthText = <<"1", "NNBSP", "2", "0", "3", ",", "7", "5", " ", "m">>

----------------------------------------------------------------------------
(* C9 *)

\* C9: after normalization no vulgar-fraction glyph remains in the text that
\* is split and parsed, however many glyphs the input holds.
C9_NoGlyphRemains ==
  (Parsed /\ widthInput # <<>>) => \A i \in 1..Len(normalized) : normalized[i] \notin Glyphs

----------------------------------------------------------------------------
(* C10 *)

NotWhiteSpace(c) == c \notin WhiteSpace

NotSpace(c) == c # " "

\* C10 as stated: an input parses as the same input without its white space
\* (spaces, tabs, other white space), for inputs that are not white space only.
C10_WhiteSpaceInsensitive ==
  (Parsed /\ SelectSeq(widthInput, NotWhiteSpace) # <<>>)
    => width = processWidthInput(SelectSeq(widthInput, NotWhiteSpace), units)

\* C10 amended: a non-empty input parses as the same input without its space
\* characters (U+0020), or as a single space if it is made of spaces only, so
\* that non-empty inputs that differ only in spaces parse to the same value.
C10_SpaceInsensitive ==
  (Parsed /\ widthInput # <<>>)
    => width = processWidthInput(IF SelectSeq(widthInput, NotSpace) = <<>>
                                 THEN <<" ">>
                                 ELSE SelectSeq(widthInput, NotSpace),
                                 units)

C10_Witness ==
  /\ Parsed
  /\ units = SETTINGS_UNITS_IMPERIAL
  /\ widthInput = <<"5", " ", "m">>
  /\ width = <<50, 3>>

====
